---- MODULE Spec2Model ----
(***************************************************************************)
(* safesearch: lower_bound_i32, upper_bound_i32 and binary_search_i32 over *)
(* an array of int32_t, executed statement by statement.  A harness picks  *)
(* one (a, n, key) and calls the three entry points on it in any order, as *)
(* test_property_based and the fuzz adapter do.                            *)
(***************************************************************************)
EXTENDS Integers, Sequences, FiniteSets

\* ---------------------------------------------------------------- bounds
\* longest array the harness builds
MaxLen == 4
\* width in bits of the unsigned index type (size_t), kept small
IndexBits == 3

\* threads calling into the library at the same time
NumThreads == 2
\* longest array the concurrent callers search
ConcMaxLen == 2

\* ------------------------------------------------------- program constants
OK_FOUND == 0
OK_NOT_FOUND == 1
ERR_NULL_PTR == 2
ERR_BAD_LEN == 3

INT32_MAX == 2147483647
INT32_MIN == (0 - INT32_MAX) - 1

\* size_t arithmetic is modulo 2^IndexBits
Modulus == 2 ^ IndexBits
SIZE_MAX == Modulus - 1

\* element values and probe keys: the extremes, a middle value, and keys
\* that fall strictly between the element values
Elems == {INT32_MIN, 0, INT32_MAX}
Keys == Elems \cup {0 - 1, 1}

Ops == {"lower", "upper", "binary"}
Statuses == {OK_FOUND, OK_NOT_FOUND, ERR_NULL_PTR, ERR_BAD_LEN}

\* every array of at most MaxLen elements, sorted or not
Arrays == UNION {[1..m -> Elems] : m \in 0..MaxLen}

VARIABLES
    a,         \* the caller's array (meaningful when present)
    present,   \* a != NULL
    n,         \* the length argument
    key,       \* the probe
    op,        \* entry point of the call in progress or last made
    pc,        \* position of the call in progress, "idle" between calls
    res,       \* lower_bound/upper_bound local: res
    first,     \* local: first
    len,       \* local: len
    half,      \* local: half
    mid,       \* local: mid
    lb,        \* binary_search local: lb
    match,     \* binary_search local: match
    results,   \* what each entry point last returned to the harness
    returned,  \* entry points that have returned at least once
    reads,     \* positions of a read by the call in progress or last made
    fault,     \* that call read outside the array or through NULL
    iters,     \* loop iterations executed by that call (saturating)
    frames,    \* the locals of each concurrent call, by stack frame
    tpc,       \* position of each thread's call
    top,       \* entry point each thread called
    tres       \* what each thread's call returned

vars == <<a, present, n, key, op, pc, res, first, len, half, mid, lb, match,
          results, returned, reads, fault, iters, frames, tpc, top, tres>>

inputs == <<a, present, n, key>>
locals == <<res, first, len, half, mid>>
bslocals == <<lb, match>>
trace == <<reads, fault, iters>>
conc == <<frames, tpc, top, tres>>

\* -------------------------------------------------------------- helpers
\* The loop bodies of lower_bound_i32 and upper_bound_i32 are the same text
\* but for the comparison, so Half, Mid, AfterMid and UpperPart serve both.

\* search_result_t
Result(s, i) == [status |-> s, index |-> i]

\* a[i] : the value read, any value at all when the read is out of the array
Deref(i) == IF present /\ i < Len(a) THEN {a[i + 1]} ELSE Elems
OutOfObject(i) == ~(present /\ i < Len(a))

\* .status = OK_FOUND, the enumerator a zero initialiser gives
InitialStatusFound == OK_FOUND

\* res = { .status = OK_NOT_FOUND, .index = 0 }
InitialStatus == OK_NOT_FOUND

\* first declared static: it keeps the value the previous call left
FirstAtEntryStatic(prev) == prev

\* size_t first = 0;  automatic, initialised at every entry
FirstAtEntry(prev) == 0

\* the length test dropped from the precondition
NullInputAnyLength(p, cnt) == ~p

\* the precondition test  a == NULL && n > 0
NullInput(p, cnt) == (~p) /\ cnt > 0

\* shift by two instead of one
HalfQuarter(l) == l \div 4

\* the reserved code reported for a null input
OnNullInputBadLen == ERR_BAD_LEN

\* res.status = ERR_NULL_PTR
OnNullInput == ERR_NULL_PTR

\* half = len >> 1
Half(l) == l \div 2

\* mid = (lo + hi) / 2 with lo = first and hi = first + 2 * half
MidOfEnds(f, h) == ((f + (f + 2 * h)) % Modulus) \div 2

\* mid = first + half
Mid(f, h) == (f + h) % Modulus

\* first = mid : mid is kept in the window after being discarded
AfterMidStays(m) == m

\* first = mid + 2 : one unexamined element is skipped
AfterMidSkips(m) == (m + 2) % Modulus

\* first = mid + 1
AfterMid(m) == (m + 1) % Modulus

\* len = len - half : the window keeps one element too many
UpperPartKeepsOne(l, h) == (l - h) % Modulus

\* len = len - half - 1
UpperPart(l, h) == (l - h - 1) % Modulus

\* a[mid] <= key in lower_bound
LowerDiscardsEqual(v, k) == v <= k

\* a[mid] < key : lower_bound discards mid and everything below it
LowerDiscards(v, k) == v < k

\* a[mid] < key in upper_bound
UpperDiscardsStrict(v, k) == v < k

\* a[mid] <= key : upper_bound discards mid and everything below it
UpperDiscards(v, k) == v <= k

\* lb.status != OK_NOT_FOUND && lb.status != OK_FOUND
IsErrorStatus(s) == s # OK_NOT_FOUND /\ s # OK_FOUND

\* lb.index < n && a != NULL
CanVerify(i, cnt, p) == i < cnt /\ p

\* a[lb.index] >= key
IsMatchAtLeast(v, k) == v >= k

\* a[lb.index] == key
IsMatch(v, k) == v = k

\* status chosen from match
Classify(m) == IF m THEN OK_FOUND ELSE OK_NOT_FOUND

\* the harness's oracles
RECURSIVE LinearLowerFrom(_, _, _, _)
LinearLowerFrom(s, cnt, k, i) ==
    IF i >= cnt THEN cnt
    ELSE IF s[i + 1] >= k THEN i
    ELSE LinearLowerFrom(s, cnt, k, i + 1)
linear_lower_bound(s, cnt, k) == LinearLowerFrom(s, cnt, k, 0)

RECURSIVE LinearUpperFrom(_, _, _, _)
LinearUpperFrom(s, cnt, k, i) ==
    IF i >= cnt THEN cnt
    ELSE IF s[i + 1] > k THEN i
    ELSE LinearUpperFrom(s, cnt, k, i + 1)
linear_upper_bound(s, cnt, k) == LinearUpperFrom(s, cnt, k, 0)

\* non-descending, the precondition qsort establishes in the harness
IsSorted(s) == \A i \in 1..(Len(s) - 1) : s[i] <= s[i + 1]

Threads == 1..NumThreads

\* the locals of one call: those of lower_bound/upper_bound and, for
\* binary_search, lb and match
NewFrame ==
    [res |-> Result(OK_NOT_FOUND, 0), first |-> 0, len |-> 0, half |-> 0,
     mid |-> 0, lb |-> Result(OK_NOT_FOUND, 0), match |-> FALSE]

\* locals declared static: every call uses the one frame
FrameOfStatic(t) == 1

\* locals have automatic storage: the call of thread t has its own frame
FrameOf(t) == t

\* no thread has called yet
ThreadsIdle ==
    /\ frames = [f \in Threads |-> NewFrame]
    /\ tpc = [t \in Threads |-> "idle"]
    /\ top = [t \in Threads |-> "none"]
    /\ tres = [t \in Threads |-> Result(OK_NOT_FOUND, 0)]

\* ----------------------------------------------------------------- Init

Init ==
    /\ present \in BOOLEAN
    /\ a \in (IF present THEN Arrays ELSE {<<>>})
    /\ n \in (IF present THEN {Len(a)} ELSE 0..SIZE_MAX)
    /\ key \in Keys
    /\ op = "none"
    /\ pc = "idle"
    /\ res = Result(OK_NOT_FOUND, 0)
    /\ first = 0
    /\ len = 0
    /\ half = 0
    /\ mid = 0
    /\ lb = Result(OK_NOT_FOUND, 0)
    /\ match = FALSE
    /\ results = [o \in Ops |-> Result(OK_NOT_FOUND, 0)]
    /\ returned = {}
    /\ reads = {}
    /\ fault = FALSE
    /\ iters = 0
    /\ ThreadsIdle

\* -------------------------------------------------------------- actions

\* declarations with initialisers at the head of lower_bound/upper_bound
EnterBound(o, label) ==
    /\ pc = "idle"
    /\ op' = o
    /\ pc' = label
    /\ res' = Result(InitialStatus, 0)
    /\ first' = FirstAtEntry(first)
    /\ len' = n
    /\ reads' = {}
    /\ fault' = FALSE
    /\ iters' = 0
    /\ UNCHANGED <<conc, inputs, half, mid, bslocals, results, returned>>

\* return res;  to the harness, or to binary_search's initialiser of lb
ReturnBound(r) ==
    IF op = "binary"
    THEN /\ lb' = r
         /\ match' = FALSE
         /\ pc' = "bs_propagate"
         /\ UNCHANGED <<results, returned>>
    ELSE /\ results' = [results EXCEPT ![op] = r]
         /\ returned' = returned \cup {op}
         /\ pc' = "idle"
         /\ UNCHANGED bslocals

\* return lb;  from binary_search to the harness
ReturnSearch(r) ==
    /\ results' = [results EXCEPT !["binary"] = r]
    /\ returned' = returned \cup {"binary"}
    /\ pc' = "idle"

call_lower_bound_i32 == EnterBound("lower", "lb_check")

call_upper_bound_i32 == EnterBound("upper", "ub_check")

\* binary_search_i32 starts by calling lower_bound_i32( a, n, key )
call_binary_search_i32 == EnterBound("binary", "lb_check")

lower_bound_precondition ==
    /\ pc = "lb_check"
    /\ IF NullInput(present, n)
       THEN /\ res' = [res EXCEPT !.status = OnNullInput]
            /\ ReturnBound(res')
       ELSE /\ pc' = "lb_loop"
            /\ UNCHANGED <<res, bslocals, results, returned>>
    /\ UNCHANGED <<conc, inputs, op, first, len, half, mid, trace>>

lower_bound_loop ==
    /\ pc = "lb_loop"
    /\ len > 0
    /\ LET h == Half(len)
           m == Mid(first, h)
       IN  /\ half' = h
           /\ mid' = m
           /\ reads' = reads \cup {m}
           /\ fault' = (fault \/ OutOfObject(m))
           /\ \E v \in Deref(m) :
                IF LowerDiscards(v, key)
                THEN /\ first' = AfterMid(m)
                     /\ len' = UpperPart(len, h)
                ELSE /\ first' = first
                     /\ len' = h
    /\ iters' = (IF iters < SIZE_MAX THEN iters + 1 ELSE iters)
    /\ UNCHANGED <<conc, inputs, op, pc, res, bslocals, results, returned>>

lower_bound_exit ==
    /\ pc = "lb_loop"
    /\ len = 0
    /\ res' = [res EXCEPT !.index = first]
    /\ ReturnBound(res')
    /\ UNCHANGED <<conc, inputs, op, first, len, half, mid, trace>>

upper_bound_precondition ==
    /\ pc = "ub_check"
    /\ IF NullInput(present, n)
       THEN /\ res' = [res EXCEPT !.status = OnNullInput]
            /\ ReturnBound(res')
       ELSE /\ pc' = "ub_loop"
            /\ UNCHANGED <<res, bslocals, results, returned>>
    /\ UNCHANGED <<conc, inputs, op, first, len, half, mid, trace>>

upper_bound_loop ==
    /\ pc = "ub_loop"
    /\ len > 0
    /\ LET h == Half(len)
           m == Mid(first, h)
       IN  /\ half' = h
           /\ mid' = m
           /\ reads' = reads \cup {m}
           /\ fault' = (fault \/ OutOfObject(m))
           /\ \E v \in Deref(m) :
                IF UpperDiscards(v, key)
                THEN /\ first' = AfterMid(m)
                     /\ len' = UpperPart(len, h)
                ELSE /\ first' = first
                     /\ len' = h
    /\ iters' = (IF iters < SIZE_MAX THEN iters + 1 ELSE iters)
    /\ UNCHANGED <<conc, inputs, op, pc, res, bslocals, results, returned>>

upper_bound_exit ==
    /\ pc = "ub_loop"
    /\ len = 0
    /\ res' = [res EXCEPT !.index = first]
    /\ ReturnBound(res')
    /\ UNCHANGED <<conc, inputs, op, first, len, half, mid, trace>>

\* Propagate errors immediately
binary_search_propagate ==
    /\ pc = "bs_propagate"
    /\ IF IsErrorStatus(lb.status)
       THEN ReturnSearch(lb)
       ELSE /\ pc' = "bs_verify"
            /\ UNCHANGED <<results, returned>>
    /\ UNCHANGED <<conc, inputs, op, locals, bslocals, trace>>

\* Verify match
binary_search_verify ==
    /\ pc = "bs_verify"
    /\ IF CanVerify(lb.index, n, present)
       THEN /\ reads' = reads \cup {lb.index}
            /\ fault' = (fault \/ OutOfObject(lb.index))
            /\ \E v \in Deref(lb.index) :
                 match' = IF IsMatch(v, key) THEN TRUE ELSE match
       ELSE UNCHANGED <<reads, fault, match>>
    /\ pc' = "bs_update"
    /\ UNCHANGED <<conc, inputs, op, locals, lb, results, returned, iters>>

\* Update status based on findings
binary_search_update ==
    /\ pc = "bs_update"
    /\ lb' = [lb EXCEPT !.status = Classify(match)]
    /\ ReturnSearch(lb')
    /\ UNCHANGED <<conc, inputs, op, locals, match, trace>>

Next ==
    \/ call_lower_bound_i32
    \/ call_upper_bound_i32
    \/ call_binary_search_i32
    \/ lower_bound_precondition
    \/ lower_bound_loop
    \/ lower_bound_exit
    \/ upper_bound_precondition
    \/ upper_bound_loop
    \/ upper_bound_exit
    \/ binary_search_propagate
    \/ binary_search_verify
    \/ binary_search_update

Spec == Init /\ [][Next]_vars

TypeOK ==
    /\ present \in BOOLEAN
    /\ n \in 0..SIZE_MAX
    /\ first \in 0..SIZE_MAX
    /\ len \in 0..SIZE_MAX
    /\ res.status \in Statuses
    /\ lb.status \in Statuses
    /\ \A o \in Ops : results[o].status \in Statuses

\* the steps of a call in progress; a call, once made, runs to its return
Step ==
    \/ lower_bound_precondition
    \/ lower_bound_loop
    \/ lower_bound_exit
    \/ upper_bound_precondition
    \/ upper_bound_loop
    \/ upper_bound_exit
    \/ binary_search_propagate
    \/ binary_search_verify
    \/ binary_search_update

FairSpec == Spec /\ WF_vars(Step)

\* ------------------------------------------------------------ properties

\* the precondition of the three operations: a sequence that is there and
\* is non-descending
SortedInput == present /\ IsSorted(a)

\* k occurs somewhere in s
Occurs(s, k) == \E i \in 1..Len(s) : s[i] = k

\* s[0..i) followed by k followed by s[i..Len(s))
InsertAt(s, i, k) == SubSeq(s, 1, i) \o <<k>> \o SubSeq(s, i + 1, Len(s))

\* floor(log2(x)) for x >= 1
RECURSIVE FloorLog2(_)
FloorLog2(x) == IF x <= 1 THEN 0 ELSE 1 + FloorLog2(x \div 2)

\* the most loop iterations a call with length cnt may take
IterationBound(cnt) == IF cnt = 0 THEN 0 ELSE FloorLog2(cnt) + 1

\* C1: on a present non-descending sequence lower_bound_i32 returns the
\* index of the left-to-right linear scan for the first element >= key
\* (n if there is none): index <= n, index = n or a[index] >= key, and
\* index = 0 or a[index-1] < key.
C1_LowerBoundIsLinearScan ==
    (SortedInput /\ "lower" \in returned) =>
        LET i == results["lower"].index
        IN  /\ i <= n
            /\ i = linear_lower_bound(a, n, key)
            /\ (i = n \/ a[i + 1] >= key)
            /\ (i = 0 \/ a[i] < key)

\* lower_bound has returned an interior index of a sorted array that holds
\* the key more than once
C1_Witness ==
    /\ SortedInput /\ "lower" \in returned
    /\ n >= 3
    /\ results["lower"].index > 0
    /\ results["lower"].index + 1 < n
    /\ a[results["lower"].index + 1] = key
    /\ a[results["lower"].index + 2] = key

\* C2: on a present non-descending sequence upper_bound_i32 returns the
\* index of the left-to-right linear scan for the first element > key
\* (n if there is none): index <= n, index = n or a[index] > key, and
\* index = 0 or a[index-1] <= key.
C2_UpperBoundIsLinearScan ==
    (SortedInput /\ "upper" \in returned) =>
        LET i == results["upper"].index
        IN  /\ i <= n
            /\ i = linear_upper_bound(a, n, key)
            /\ (i = n \/ a[i + 1] > key)
            /\ (i = 0 \/ a[i] <= key)

\* upper_bound has returned an interior index just past a run of two keys
C2_Witness ==
    /\ SortedInput /\ "upper" \in returned
    /\ n >= 3
    /\ results["upper"].index >= 2
    /\ results["upper"].index < n
    /\ a[results["upper"].index] = key
    /\ a[results["upper"].index - 1] = key

\* C3: on a non-descending sequence binary_search_i32 returns OK_FOUND
\* exactly when the key occurs in the sequence and OK_NOT_FOUND otherwise,
\* and its index is the index lower_bound_i32 returns for the same call.
C3_BinarySearchClassifies ==
    (SortedInput /\ "binary" \in returned) =>
        /\ (results["binary"].status = OK_FOUND) <=> Occurs(a, key)
        /\ (results["binary"].status = OK_NOT_FOUND) <=> ~Occurs(a, key)
        /\ ("lower" \in returned =>
               results["binary"].index = results["lower"].index)

\* both outcomes need both calls made: here the key is absent from a
\* non-empty sorted array and falls strictly inside it
C3_Witness ==
    /\ SortedInput /\ {"binary", "lower"} \subseteq returned
    /\ n >= 2
    /\ ~Occurs(a, key)
    /\ results["binary"].status = OK_NOT_FOUND
    /\ results["binary"].index > 0
    /\ results["binary"].index < n

\* C4: with the sequence absent and n > 0 each operation returns exactly
\* {ERR_NULL_PTR, 0} and reads no element; with the sequence absent and
\* n = 0 each returns exactly {OK_NOT_FOUND, 0}; ERR_NULL_PTR is returned
\* in no other case.
C4_AbsentSequence ==
    /\ (~present) => (reads = {} /\ ~fault)
    /\ \A o \in returned :
        /\ (~present /\ n > 0) => results[o] = Result(ERR_NULL_PTR, 0)
        /\ (~present /\ n = 0) => results[o] = Result(OK_NOT_FOUND, 0)
        /\ (results[o].status = ERR_NULL_PTR) => (~present /\ n > 0)

\* all three operations have returned for an absent sequence of length 1
C4_Witness ==
    /\ ~present
    /\ n = 1
    /\ returned = Ops
    /\ results["binary"].status = ERR_NULL_PTR

\* C5: on a non-descending sequence lower_bound's index is at most
\* upper_bound's, and the positions from the one up to but excluding the
\* other are exactly the positions holding the key.
C5_EqualRange ==
    (SortedInput /\ {"lower", "upper"} \subseteq returned) =>
        LET lo == results["lower"].index
            hi == results["upper"].index
        IN  /\ lo <= hi
            /\ hi <= n
            /\ \A i \in 0..(n - 1) : (lo <= i /\ i < hi) <=> (a[i + 1] = key)

\* a run of two or more keys with other elements on both sides
C5_Witness ==
    /\ SortedInput /\ {"lower", "upper"} \subseteq returned
    /\ results["lower"].index > 0
    /\ results["upper"].index < n
    /\ results["upper"].index >= results["lower"].index + 2

\* C6: on a non-descending sequence, whenever binary_search_i32 returns
\* OK_FOUND its index i is below n, a[i] is the key, and no earlier
\* position holds the key.
C6_FoundIsLeftmost ==
    (SortedInput /\ "binary" \in returned
        /\ results["binary"].status = OK_FOUND) =>
        LET i == results["binary"].index
        IN  /\ i < n
            /\ a[i + 1] = key
            /\ \A j \in 0..(i - 1) : a[j + 1] # key

\* found, with the key duplicated after the reported position and a
\* smaller element before it
C6_Witness ==
    /\ SortedInput /\ "binary" \in returned
    /\ results["binary"].status = OK_FOUND
    /\ results["binary"].index > 0
    /\ results["binary"].index + 1 < n
    /\ a[results["binary"].index + 2] = key

\* C7: on a non-descending sequence, whenever binary_search_i32 returns
\* OK_NOT_FOUND with index i, the sequence with the key inserted at
\* position i is non-descending.
C7_InsertionKeepsOrder ==
    (SortedInput /\ "binary" \in returned
        /\ results["binary"].status = OK_NOT_FOUND) =>
        /\ results["binary"].index <= n
        /\ IsSorted(InsertAt(a, results["binary"].index, key))

\* not found, with the insertion point strictly inside the array
C7_Witness ==
    /\ SortedInput /\ "binary" \in returned
    /\ results["binary"].status = OK_NOT_FOUND
    /\ n >= 3
    /\ results["binary"].index > 0
    /\ results["binary"].index < n
    /\ a[results["binary"].index] < key
    /\ a[results["binary"].index + 1] > key

\* C8: for a present sequence, sorted or not, every operation reads only
\* positions below n, and returns an index of at most n with a non-error
\* status.
C8_InRangeWhateverTheOrder ==
    present =>
        /\ ~fault
        /\ \A i \in reads : i < n
        /\ \A o \in returned :
            /\ results[o].index <= n
            /\ results[o].status \in {OK_FOUND, OK_NOT_FOUND}

\* all three operations have returned on an array that is not sorted, the
\* last of them having read the array
C8_Witness ==
    /\ present /\ ~IsSorted(a)
    /\ returned = Ops
    /\ pc = "idle"
    /\ Cardinality(reads) >= 2

\* each loop iteration leaves a window of at most half the length
C9_WindowHalves ==
    [][(lower_bound_loop \/ upper_bound_loop) =>
          (len' < len /\ len' <= len \div 2)]_vars

\* the loop has run at most floor(log2(n)) + 1 times, and not at all for
\* n = 0
C9_IterationsBounded == iters <= IterationBound(n)

\* C9: every call of lower_bound_i32 and upper_bound_i32 terminates
\* whatever n and the array hold: each loop iteration strictly shrinks
\* the window to at most half its length, the loop runs at most
\* floor(log2(n)) + 1 times (never for n = 0), and the call returns.
C9_Terminates ==
    /\ C9_WindowHalves
    /\ []C9_IterationsBounded
    /\ [](pc # "idle" => <>(pc = "idle"))

\* a call on an unsorted array of full length has used the whole
\* iteration budget and returned
C9_Witness ==
    /\ present /\ ~IsSorted(a)
    /\ n >= 4
    /\ pc = "idle"
    /\ op \in {"lower", "upper"}
    /\ op \in returned
    /\ iters = IterationBound(n)

\* C10: ERR_BAD_LEN is never returned, whatever the input: every status
\* returned is OK_FOUND, OK_NOT_FOUND or ERR_NULL_PTR.
C10_BadLenNeverReturned ==
    \A o \in returned :
        results[o].status \in {OK_FOUND, OK_NOT_FOUND, ERR_NULL_PTR}

\* the error path taken by all three on the largest length
C10_Witness ==
    /\ ~present
    /\ n = SIZE_MAX
    /\ returned = Ops
    /\ \A o \in Ops : results[o].status = ERR_NULL_PTR

\* C11: the operations keep no state and leave the sequence alone: no
\* step of any call changes the sequence, and an entry point called again
\* on the same (a, n, key) returns the status and index it returned
\* before, whatever was called in between.
C11_NoHiddenState ==
    [][/\ a' = a
       /\ \A o \in returned : results'[o] = results[o]]_vars

\* after all three entry points have returned, lower_bound is called again
\* on a non-empty array and stands at the end of its loop
C11_Witness ==
    /\ returned = Ops
    /\ present /\ n >= 3
    /\ op = "lower"
    /\ pc = "lb_loop"
    /\ len = 0
    /\ first > 0
    /\ first = results["lower"].index

\* C14: lower_bound_i32 and upper_bound_i32 never classify a match: for a
\* present sequence, or an absent one with n = 0, their status is
\* OK_NOT_FOUND also when the key occurs; OK_FOUND comes from
\* binary_search_i32 only.
C14_BoundsNeverReportFound ==
    \A o \in returned \ {"binary"} :
        /\ results[o].status # OK_FOUND
        /\ (present \/ n = 0) => results[o].status = OK_NOT_FOUND

\* the key occurs, binary_search says found, both bounds say not found
C14_Witness ==
    /\ returned = Ops
    /\ present /\ Occurs(a, key)
    /\ results["binary"].status = OK_FOUND
    /\ results["lower"].status = OK_NOT_FOUND
    /\ results["upper"].status = OK_NOT_FOUND
    /\ results["lower"].index < results["upper"].index

\* ------------------------------------------- the largest representable n

\* SIZE_MAX elements: i times INT32_MIN, then 0 up to position j, then
\* INT32_MAX
Staircase(i, j) ==
    [k \in 1..SIZE_MAX |->
        IF k <= i THEN INT32_MIN ELSE IF k <= j THEN 0 ELSE INT32_MAX]

\* the same elements in descending order
Reversed(s) == [k \in 1..Len(s) |-> s[Len(s) + 1 - k]]

WideArrays ==
    LET up == {Staircase(i, j) : i \in 0..SIZE_MAX, j \in 0..SIZE_MAX}
    IN  up \cup {Reversed(s) : s \in up}

\* the harness hands over an array of SIZE_MAX elements
WideInit ==
    /\ present = TRUE
    /\ a \in WideArrays
    /\ n = SIZE_MAX
    /\ key \in Keys
    /\ op = "none"
    /\ pc = "idle"
    /\ res = Result(OK_NOT_FOUND, 0)
    /\ first = 0
    /\ len = 0
    /\ half = 0
    /\ mid = 0
    /\ lb = Result(OK_NOT_FOUND, 0)
    /\ match = FALSE
    /\ results = [o \in Ops |-> Result(OK_NOT_FOUND, 0)]
    /\ returned = {}
    /\ reads = {}
    /\ fault = FALSE
    /\ iters = 0
    /\ ThreadsIdle

WideSpec == WideInit /\ [][Next]_vars

\* C13: at every loop head of lower_bound_i32 and upper_bound_i32
\* first + len <= n, and in the iteration about to run half < len,
\* mid = first + half <= n - 1, mid + 1 <= n and len - half - 1 >= 0, so
\* that no sum or difference of the loop wraps modulo 2^IndexBits, also
\* for n = SIZE_MAX.
C13_WindowNeverWraps ==
    (pc \in {"lb_loop", "ub_loop"}) =>
        /\ first + len <= n
        /\ (len > 0) =>
            LET h == Half(len)
            IN  /\ h < len
                /\ first + h <= n - 1
                /\ first + h + 1 <= n
                /\ len - h - 1 >= 0
                /\ Mid(first, h) = first + h
                /\ AfterMid(Mid(first, h)) = first + h + 1
                /\ UpperPart(len, h) = len - h - 1

\* a loop head in the upper half of an array of SIZE_MAX elements, the
\* window reaching the last element
C13_Witness ==
    /\ n = SIZE_MAX
    /\ pc \in {"lb_loop", "ub_loop"}
    /\ len > 0
    /\ first > SIZE_MAX \div 2
    /\ first + len = SIZE_MAX

\* --------------------------------------------------- concurrent callers
\* Each thread makes one call on the harness's (a, n, key).  The code is
\* that of the actions above, with the locals taken from the call's frame.

\* the frame of thread t's call
Locals(t) == frames[FrameOf(t)]

\* the comparison of the loop at label
Discards(label, v, k) ==
    IF label = "ub_loop" THEN UpperDiscards(v, k) ELSE LowerDiscards(v, k)

\* the sequential run is over, binary_search_i32 having been the last call
\* as in the harness: its results are those of calls run alone
AloneDone == returned = Ops /\ pc = "idle" /\ op = "binary"

\* return res;  to the thread, or to binary_search's initialiser of lb
ThreadReturnBound(t, fr) ==
    IF top[t] = "binary"
    THEN /\ frames' = [frames EXCEPT ![FrameOf(t)] =
                          [fr EXCEPT !.lb = fr.res, !.match = FALSE]]
         /\ tpc' = [tpc EXCEPT ![t] = "bs_propagate"]
         /\ UNCHANGED tres
    ELSE /\ frames' = [frames EXCEPT ![FrameOf(t)] = fr]
         /\ tpc' = [tpc EXCEPT ![t] = "done"]
         /\ tres' = [tres EXCEPT ![t] = fr.res]

thread_call(t, o) ==
    /\ AloneDone
    /\ tpc[t] = "idle"
    /\ top' = [top EXCEPT ![t] = o]
    /\ tpc' = [tpc EXCEPT ![t] = IF o = "upper" THEN "ub_check" ELSE "lb_check"]
    /\ frames' = [frames EXCEPT ![FrameOf(t)] =
                     [Locals(t) EXCEPT !.res = Result(InitialStatus, 0),
                                       !.first = FirstAtEntry(Locals(t).first),
                                       !.len = n]]
    /\ UNCHANGED <<inputs, op, pc, locals, bslocals, results, returned,
                   trace, tres>>

thread_precondition(t) ==
    /\ tpc[t] \in {"lb_check", "ub_check"}
    /\ IF NullInput(present, n)
       THEN ThreadReturnBound(t,
                [Locals(t) EXCEPT !.res.status = OnNullInput])
       ELSE /\ tpc' = [tpc EXCEPT ![t] =
                          IF tpc[t] = "ub_check" THEN "ub_loop" ELSE "lb_loop"]
            /\ UNCHANGED <<frames, tres>>
    /\ UNCHANGED <<inputs, op, pc, locals, bslocals, results, returned,
                   trace, top>>

thread_loop(t) ==
    /\ tpc[t] \in {"lb_loop", "ub_loop"}
    /\ Locals(t).len > 0
    /\ LET fr == Locals(t)
           h == Half(fr.len)
           m == Mid(fr.first, h)
       IN  \E v \in Deref(m) :
             frames' = [frames EXCEPT ![FrameOf(t)] =
                IF Discards(tpc[t], v, key)
                THEN [fr EXCEPT !.half = h, !.mid = m,
                                !.first = AfterMid(m),
                                !.len = UpperPart(fr.len, h)]
                ELSE [fr EXCEPT !.half = h, !.mid = m, !.len = h]]
    /\ UNCHANGED <<inputs, op, pc, locals, bslocals, results, returned,
                   trace, tpc, top, tres>>

thread_exit(t) ==
    /\ tpc[t] \in {"lb_loop", "ub_loop"}
    /\ Locals(t).len = 0
    /\ ThreadReturnBound(t,
           [Locals(t) EXCEPT !.res.index = Locals(t).first])
    /\ UNCHANGED <<inputs, op, pc, locals, bslocals, results, returned,
                   trace, top>>

thread_propagate(t) ==
    /\ tpc[t] = "bs_propagate"
    /\ IF IsErrorStatus(Locals(t).lb.status)
       THEN /\ tres' = [tres EXCEPT ![t] = Locals(t).lb]
            /\ tpc' = [tpc EXCEPT ![t] = "done"]
       ELSE /\ tpc' = [tpc EXCEPT ![t] = "bs_verify"]
            /\ UNCHANGED tres
    /\ UNCHANGED <<inputs, op, pc, locals, bslocals, results, returned,
                   trace, frames, top>>

thread_verify(t) ==
    /\ tpc[t] = "bs_verify"
    /\ LET fr == Locals(t)
       IN  IF CanVerify(fr.lb.index, n, present)
           THEN \E v \in Deref(fr.lb.index) :
                  frames' = [frames EXCEPT ![FrameOf(t)] =
                     [fr EXCEPT !.match =
                         IF IsMatch(v, key) THEN TRUE ELSE fr.match]]
           ELSE UNCHANGED frames
    /\ tpc' = [tpc EXCEPT ![t] = "bs_update"]
    /\ UNCHANGED <<inputs, op, pc, locals, bslocals, results, returned,
                   trace, top, tres>>

thread_update(t) ==
    /\ tpc[t] = "bs_update"
    /\ LET fr == [Locals(t) EXCEPT !.lb.status = Classify(Locals(t).match)]
       IN  /\ frames' = [frames EXCEPT ![FrameOf(t)] = fr]
           /\ tres' = [tres EXCEPT ![t] = fr.lb]
    /\ tpc' = [tpc EXCEPT ![t] = "done"]
    /\ UNCHANGED <<inputs, op, pc, locals, bslocals, results, returned,
                   trace, top>>

\* arrays of at most ConcMaxLen elements
ConcInit == Init /\ Len(a) <= ConcMaxLen

\* the three entry points are first run alone, one call at a time, then
\* the threads call
ConcNext ==
    \/ (\A t \in Threads : tpc[t] = "idle") /\ Next
    \/ \E t \in Threads, o \in Ops : thread_call(t, o)
    \/ \E t \in Threads : thread_precondition(t)
    \/ \E t \in Threads : thread_loop(t)
    \/ \E t \in Threads : thread_exit(t)
    \/ \E t \in Threads : thread_propagate(t)
    \/ \E t \in Threads : thread_verify(t)
    \/ \E t \in Threads : thread_update(t)

ConcSpec == ConcInit /\ [][ConcNext]_vars

\* C12: concurrent calls are safe: with the steps of two or more calls
\* interleaved in any way, every call returns the status and index that
\* the same entry point returned when it ran alone.
C12_ConcurrentAsAlone ==
    \A t \in Threads : (tpc[t] = "done") => tres[t] = results[top[t]]

\* one thread's call has returned a non-zero index while another thread is
\* part-way through its loop
C12_Witness ==
    \E t, u \in Threads :
        /\ t # u
        /\ present
        /\ tpc[t] = "done"
        /\ tres[t].index > 0
        /\ tpc[u] \in {"lb_loop", "ub_loop"}
        /\ Locals(u).len > 0
        /\ Locals(u).len < n

====
